---- MODULE Spec2Model ----
(***************************************************************************)
(* The Othello/Reversi rules engine of src/src/lib.rs: struct Board with   *)
(* its 64 cells and side to move, and the methods new, reset,              *)
(* get_black_to_move, is_legal, legal_moves, play, counts and as_list.     *)
(***************************************************************************)
EXTENDS Integers, Sequences, FiniteSets, TLC

(* ------------------------------ bounds --------------------------------- *)

\* Successful plays explored from a freshly constructed board (Spec).
MaxPlays == 3

\* Successful plays explored from the positions of the recorded games
\* (SpecDeep).
MaxExtra == 1

(* ---------------------------- representation --------------------------- *)

\* lib.rs:3  "0 = empty, 1 = black, -1 = white"
EMPTY == 0
BLACK == 1
WHITE == -1

\* lib.rs:7  cells: [i8; 64]
NumCells == 64
Cells == 0 .. (NumCells - 1)

\* lib.rs:43  const DIRS in is_legal
DIRS == <<0 - 9, 0 - 8, 0 - 7, 0 - 1, 1, 7, 8, 9>>

\* lib.rs:92  const DIRS in play
PLAY_DIRS == <<0 - 9, 0 - 8, 0 - 7, 0 - 1, 1, 7, 8, 9>>

\* PyResult: Ok(v) or Err(PyValueError("Illegal move"))
Ok(v) == [ok |-> TRUE, val |-> v]
Err(e) == [ok |-> FALSE, err |-> e]
Unit == <<>>

\* Not an index of the board: no cell.
NoCell == 0 - 1

(* -------------------------------- new ---------------------------------- *)

\* Mutant of new: the two colours of the central stones exchanged.
new_swapped ==
  [cells |-> [i \in Cells |->
                IF i = 27 \/ i = 36 THEN BLACK
                ELSE IF i = 28 \/ i = 35 THEN WHITE
                ELSE EMPTY],
   black_to_move |-> TRUE]

\* lib.rs:15-26
new ==
  [cells |-> [i \in Cells |->
                IF i = 27 \/ i = 36 THEN WHITE
                ELSE IF i = 28 \/ i = 35 THEN BLACK
                ELSE EMPTY],
   black_to_move |-> TRUE]

(* ------------------------------ is_legal ------------------------------- *)

\* lib.rs:44 / lib.rs:93   let my = if self.black_to_move { 1 } else { -1 }
my_stone(black_to_move) == IF black_to_move THEN 1 ELSE 0 - 1

\* Mutant of legal_wrap: the diagonal -9 left out of the leftward check.
legal_wrap_no_diag(d, xc, c) ==
  \/ (d = 0 - 1 \/ d = 7) /\ xc > c
  \/ (d = 1 \/ d = 0 - 7 \/ d = 9) /\ xc < c

\* lib.rs:56-61  the two "board wrap check" conditions of is_legal's loop
legal_wrap(d, xc, c) ==
  \/ (d = 0 - 1 \/ d = 7 \/ d = 0 - 9) /\ xc > c
  \/ (d = 1 \/ d = 0 - 7 \/ d = 9) /\ xc < c

\* lib.rs:52-75  the while loop of is_legal for one direction d, from cell x
\* with cnt opponent stones seen; found is "return true", read lists the
\* cells whose contents the loop has read (self.cells[x as usize]).
RECURSIVE legal_scan(_, _, _, _, _, _, _)
legal_scan(cells, my, c, d, x, cnt, read) ==
  IF ~(x >= 0 /\ x < 64) THEN [found |-> FALSE, read |-> read]
  ELSE IF legal_wrap(d, x % 8, c) THEN [found |-> FALSE, read |-> read]
  ELSE LET s == cells[x]
           rd == Append(read, x)
       IN IF s = 0 - my THEN legal_scan(cells, my, c, d, x + d, cnt + 1, rd)
          ELSE IF s = my THEN [found |-> cnt > 0, read |-> rd]
          ELSE [found |-> FALSE, read |-> rd]

\* lib.rs:47-51  one iteration of "for d in DIRS": c, x and cnt initialised
legal_dir(cells, black_to_move, idx, d) ==
  legal_scan(cells, my_stone(black_to_move), idx % 8, d, idx + d, 0, <<>>)

\* lib.rs:39-78
is_legal(cells, black_to_move, idx) ==
  IF cells[idx] # 0 THEN FALSE
  ELSE \E k \in 1 .. Len(DIRS) :
         legal_dir(cells, black_to_move, idx, DIRS[k]).found

(* ----------------------------- legal_moves ----------------------------- *)

\* lib.rs:82  (0..64).filter(|&i| self.is_legal(i)).collect()
RECURSIVE legal_moves_from(_, _, _)
legal_moves_from(cells, black_to_move, i) ==
  IF i >= 64 THEN <<>>
  ELSE IF is_legal(cells, black_to_move, i)
       THEN <<i>> \o legal_moves_from(cells, black_to_move, i + 1)
       ELSE legal_moves_from(cells, black_to_move, i + 1)

\* Mutant of legal_moves: the indices collected from 63 down to 0.
RECURSIVE legal_moves_desc_from(_, _, _)
legal_moves_desc_from(cells, black_to_move, i) ==
  IF i < 0 THEN <<>>
  ELSE IF is_legal(cells, black_to_move, i)
       THEN <<i>> \o legal_moves_desc_from(cells, black_to_move, i - 1)
       ELSE legal_moves_desc_from(cells, black_to_move, i - 1)

legal_moves_desc(cells, black_to_move) ==
  legal_moves_desc_from(cells, black_to_move, 63)

\* lib.rs:81-83
legal_moves(cells, black_to_move) == legal_moves_from(cells, black_to_move, 0)

(* -------------------------------- play --------------------------------- *)

\* Mutant of play_wrap: leftward scans stop in the origin's own column too.
play_wrap_strict(d, xc, c) ==
  \/ (d = 0 - 1 \/ d = 7 \/ d = 0 - 9) /\ xc >= c
  \/ (d = 1 \/ d = 0 - 7 \/ d = 9) /\ xc < c

\* lib.rs:105-110  the two wrap conditions of play's loop
play_wrap(d, xc, c) ==
  \/ (d = 0 - 1 \/ d = 7 \/ d = 0 - 9) /\ xc > c
  \/ (d = 1 \/ d = 0 - 7 \/ d = 9) /\ xc < c

\* Mutant of commit_flips: the collected stones are removed, not recoloured.
commit_flips_clear(cells, buf, my) ==
  [i \in Cells |->
     IF \E j \in 1 .. Len(buf) : buf[j] = i THEN EMPTY ELSE cells[i]]

\* lib.rs:115-117  for i in &buf { self.cells[*i] = my }
commit_flips(cells, buf, my) ==
  [i \in Cells |-> IF \E j \in 1 .. Len(buf) : buf[j] = i THEN my ELSE cells[i]]

\* lib.rs:102-124  the while loop of play for one direction d, from cell x
\* with buf the opponent cells collected so far.
RECURSIVE flip_scan(_, _, _, _, _, _, _)
flip_scan(cells, my, c, d, x, buf, read) ==
  IF ~(x >= 0 /\ x < 64) THEN [cells |-> cells, flipped |-> 0, read |-> read]
  ELSE IF play_wrap(d, x % 8, c)
       THEN [cells |-> cells, flipped |-> 0, read |-> read]
  ELSE LET s == cells[x]
           rd == Append(read, x)
       IN IF s = 0 - my
          THEN flip_scan(cells, my, c, d, x + d, Append(buf, x), rd)
          ELSE IF s = my
               THEN [cells |-> commit_flips(cells, buf, my),
                     flipped |-> Len(buf), read |-> rd]
               ELSE [cells |-> cells, flipped |-> 0, read |-> rd]

\* lib.rs:96-101  one iteration of "for d in DIRS" of play: buf and x set up
flip_dir(cells, my, idx, d) ==
  flip_scan(cells, my, idx % 8, d, idx + d, <<>>, <<>>)

RECURSIVE play_dirs(_, _, _, _, _)

\* Mutant of play_dirs: flipped = buf.len() in place of flipped += buf.len().
RECURSIVE play_dirs_last(_, _, _, _, _)
play_dirs_last(cells, my, idx, k, flipped) ==
  IF k > Len(PLAY_DIRS) THEN [cells |-> cells, flipped |-> flipped]
  ELSE LET r == flip_dir(cells, my, idx, PLAY_DIRS[k])
       IN play_dirs_last(r.cells, my, idx, k + 1, r.flipped)

\* lib.rs:99-125  for d in DIRS { ... flipped += buf.len() ... }
play_dirs(cells, my, idx, k, flipped) ==
  IF k > Len(PLAY_DIRS) THEN [cells |-> cells, flipped |-> flipped]
  ELSE LET r == flip_dir(cells, my, idx, PLAY_DIRS[k])
       IN play_dirs(r.cells, my, idx, k + 1, flipped + r.flipped)

\* Mutant of play: the stone is placed before the legality test.
play_place_first(cells, black_to_move, idx) ==
  IF ~is_legal(cells, black_to_move, idx)
  THEN [cells |-> [cells EXCEPT ![idx] = my_stone(black_to_move)],
        black_to_move |-> black_to_move,
        ret |-> Err("Illegal move")]
  ELSE LET my == my_stone(black_to_move)
           stoned == [cells EXCEPT ![idx] = my]
           r == play_dirs(stoned, my, idx, 1, 0)
       IN [cells |-> r.cells, black_to_move |-> ~black_to_move,
           ret |-> Ok(r.flipped)]

\* Mutant of play: the turn stays with the mover when the opponent has no
\* legal move.
play_autopass(cells, black_to_move, idx) ==
  IF ~is_legal(cells, black_to_move, idx)
  THEN [cells |-> cells, black_to_move |-> black_to_move,
        ret |-> Err("Illegal move")]
  ELSE LET my == my_stone(black_to_move)
           stoned == [cells EXCEPT ![idx] = my]
           r == play_dirs(stoned, my, idx, 1, 0)
       IN [cells |-> r.cells,
           black_to_move |->
             IF \E i \in Cells : is_legal(r.cells, ~black_to_move, i)
             THEN ~black_to_move ELSE black_to_move,
           ret |-> Ok(r.flipped)]

\* lib.rs:86-128  the board after the call and the value returned
play(cells, black_to_move, idx) ==
  IF ~is_legal(cells, black_to_move, idx)
  THEN [cells |-> cells, black_to_move |-> black_to_move,
        ret |-> Err("Illegal move")]
  ELSE LET my == my_stone(black_to_move)
           stoned == [cells EXCEPT ![idx] = my]
           r == play_dirs(stoned, my, idx, 1, 0)
       IN [cells |-> r.cells, black_to_move |-> ~black_to_move,
           ret |-> Ok(r.flipped)]

(* ------------------------------- counts -------------------------------- *)

\* lib.rs:131-142  (b, w) as u8; at most 64 increments, so no wrap-around
RECURSIVE counts_from(_, _, _, _)
counts_from(cells, i, b, w) ==
  IF i >= 64 THEN <<b, w>>
  ELSE IF cells[i] = 1 THEN counts_from(cells, i + 1, (b + 1) % 256, w)
  ELSE IF cells[i] = 0 - 1 THEN counts_from(cells, i + 1, b, (w + 1) % 256)
  ELSE counts_from(cells, i + 1, b, w)

counts(cells) == counts_from(cells, 0, 0, 0)

\* lib.rs:145-147  self.cells.to_vec()
as_list(cells) == [i \in 1 .. 64 |-> cells[i - 1]]

(* ------------------------------- state --------------------------------- *)

VARIABLES
  cells,          \* Board.cells
  black_to_move,  \* Board.black_to_move
  plays,          \* successful plays since new() or the last reset()
  budget,         \* successful plays the exploration still admits
  op,             \* the method called last
  ret,            \* what that call returned
  placed          \* the cell that call placed a stone on, NoCell if none

vars == <<cells, black_to_move, plays, budget, op, ret, placed>>

board_unchanged == UNCHANGED <<cells, black_to_move, plays, budget>>

\* Board::new()
Init ==
  /\ cells = new.cells
  /\ black_to_move = new.black_to_move
  /\ plays = 0
  /\ budget = MaxPlays
  /\ op = "new" /\ ret = Ok(Unit) /\ placed = NoCell

\* lib.rs:34-36
Call_reset ==
  /\ cells' = new.cells
  /\ black_to_move' = new.black_to_move
  /\ plays' = 0
  /\ UNCHANGED budget
  /\ op' = "reset" /\ ret' = Ok(Unit) /\ placed' = NoCell

\* lib.rs:29-31
Call_get_black_to_move ==
  /\ board_unchanged
  /\ op' = "get_black_to_move" /\ ret' = Ok(black_to_move) /\ placed' = NoCell

\* lib.rs:39-78
Call_is_legal(idx) ==
  /\ board_unchanged
  /\ op' = "is_legal" /\ placed' = NoCell
  /\ ret' = Ok(is_legal(cells, black_to_move, idx))

\* lib.rs:81-83
Call_legal_moves ==
  /\ board_unchanged
  /\ op' = "legal_moves" /\ placed' = NoCell
  /\ ret' = Ok(legal_moves(cells, black_to_move))

\* lib.rs:86-128  (a play that succeeds is explored only while budget lasts)
Call_play(idx) ==
  \E r \in {play(cells, black_to_move, idx)} :
     /\ r.ret.ok => budget > 0
     /\ cells' = r.cells
     /\ black_to_move' = r.black_to_move
     /\ plays' = IF r.ret.ok THEN plays + 1 ELSE plays
     /\ budget' = IF r.ret.ok THEN budget - 1 ELSE budget
     /\ op' = "play" /\ ret' = r.ret
     /\ placed' = IF r.ret.ok THEN idx ELSE NoCell

\* lib.rs:131-142
Call_counts ==
  /\ board_unchanged
  /\ op' = "counts" /\ ret' = Ok(counts(cells)) /\ placed' = NoCell

\* lib.rs:145-147
Call_as_list ==
  /\ board_unchanged
  /\ op' = "as_list" /\ ret' = Ok(as_list(cells)) /\ placed' = NoCell

Next ==
  \/ Call_reset
  \/ Call_get_black_to_move
  \/ \E idx \in Cells : Call_is_legal(idx)
  \/ Call_legal_moves
  \/ \E idx \in Cells : Call_play(idx)
  \/ Call_counts
  \/ Call_as_list

Spec == Init /\ [][Next]_vars

(* ------------------------- recorded games ------------------------------ *)

\* Three games played from Board::new() with moves that are legal under the
\* rules of Othello.  The first ends with a row of seven WHITE stones in
\* columns 1-7 next to the empty cell 24; the second ends with BLACK to move
\* and no legal move; the third ends with seven WHITE stones in columns 0-6
\* next to the empty cell 31.
Games ==
  << <<26, 18, 37, 29, 30, 34, 25, 32, 33, 31>>,
     <<26, 18, 37, 25, 24, 32, 9, 16>>,
     <<37, 29, 21, 30, 18, 46, 39, 23, 22, 26, 25, 24>> >>

\* The board after moves i..n of game are played on b, with what the last
\* call returned.
RECURSIVE Replay(_, _, _, _)
Replay(b, game, i, n) ==
  IF i > n THEN b
  ELSE LET r == play(b.cells, b.black_to_move, game[i])
       IN Replay([cells |-> r.cells, black_to_move |-> r.black_to_move,
                  op |-> "play", ret |-> r.ret,
                  placed |-> IF r.ret.ok THEN game[i] ELSE NoCell],
                 game, i + 1, n)

\* A board constructed by new() and then played through a recorded game, up
\* to its last or last-but-one move.
InitDeep ==
  \E g \in 1 .. Len(Games) :
    \E n \in {0, Len(Games[g]) - 1, Len(Games[g])} :
      \E b \in {Replay([cells |-> new.cells,
                        black_to_move |-> new.black_to_move,
                        op |-> "new", ret |-> Ok(Unit), placed |-> NoCell],
                       Games[g], 1, n)} :
         /\ cells = b.cells
         /\ black_to_move = b.black_to_move
         /\ plays = n
         /\ budget = MaxExtra
         /\ op = b.op /\ ret = b.ret /\ placed = b.placed

SpecDeep == InitDeep /\ [][Next]_vars

(* ------------------- the rules on the 8x8 grid ------------------------- *)

\* The eight king-move steps as (row, col) pairs.
Steps ==
  {<<dr, dc>> : dr \in {-1, 0, 1}, dc \in {-1, 0, 1}} \ {<<0, 0>>}

\* The cell k steps from idx along g, or NoCell beyond the edge of the grid.
At(idx, g, k) ==
  LET r == (idx \div 8) + k * g[1]
      c == (idx % 8) + k * g[2]
  IN IF r >= 0 /\ r <= 7 /\ c >= 0 /\ c <= 7 THEN r * 8 + c ELSE NoCell

\* Along g the n cells next to idx are opponent stones and the cell after
\* them is a stone of the side my.
Brackets(b, my, idx, g, n) ==
  /\ \A k \in 1 .. n : At(idx, g, k) # NoCell /\ b[At(idx, g, k)] = 0 - my
  /\ At(idx, g, n + 1) # NoCell
  /\ b[At(idx, g, n + 1)] = my

GridLegal(b, btm, idx) ==
  /\ b[idx] = EMPTY
  /\ \E g \in Steps : \E n \in 1 .. 6 : Brackets(b, my_stone(btm), idx, g, n)

\* The cells of the runs bracketed from idx, over all directions.
GridFlips(b, btm, idx) ==
  UNION {{At(idx, x[1], k) : k \in 1 .. x[2]} :
           x \in {y \in Steps \X (1 .. 6) :
                    Brackets(b, my_stone(btm), idx, y[1], y[2])}}

\* b2 is b with idx set to the mover and the bracketed runs recoloured.
IsGridPlay(b, btm, idx, b2) ==
  \E F \in {GridFlips(b, btm, idx)} :
    \A i \in Cells :
      b2[i] = IF i = idx \/ i \in F THEN my_stone(btm) ELSE b[i]

Stones(b) == counts(b)[1] + counts(b)[2]

PlayedOk == op = "play" /\ ret.ok

(* ------------------------------ claims --------------------------------- *)

\* C1: is_legal(idx) is true exactly when cell idx is EMPTY and some grid
\* direction holds a run of one or more opponent stones closed by a stone of
\* the side to move, with no empty cell and no board edge before it.
C1_IsLegalIsGridLegal ==
  \A idx \in Cells :
    is_legal(cells, black_to_move, idx) <=> GridLegal(cells, black_to_move, idx)

\* C2: a successful play(idx) leaves the board it found with cell idx set to
\* the mover and exactly the runs bracketed on the grid recoloured; every
\* other cell is unchanged.
C2_PlayIsGridPlay ==
  [][(op' = "play" /\ ret'.ok)
       => IsGridPlay(cells, black_to_move, placed', cells')]_vars

\* C3: for every idx with is_legal(idx) false, play(idx) returns the
\* illegal-move error and leaves the cells and the side to move, and with
\* them counts() (lib.rs:131-142 reads nothing but the cells), as they were.
C3_IllegalPlayRejected ==
  /\ [](\A idx \in Cells :
          ~is_legal(cells, black_to_move, idx) =>
            \E r \in {play(cells, black_to_move, idx)} :
              /\ r.ret = Err("Illegal move")
              /\ r.cells = cells
              /\ r.black_to_move = black_to_move)
  /\ [][(op' = "play" /\ ~ret'.ok)
          => /\ ret' = Err("Illegal move")
             /\ cells' = cells
             /\ black_to_move' = black_to_move
             /\ placed' = NoCell]_vars

C3Witness ==
  /\ op = "play" /\ ~ret.ok
  /\ plays >= 1
  /\ \E i \in Cells : cells[i] = EMPTY /\ ~is_legal(cells, black_to_move, i)

\* C4: the side to move toggles on every successful play, also when the side
\* receiving the turn has no legal move, and on nothing else but reset; it is
\* BLACK exactly when the number of successful plays since new() or the last
\* reset() is even.
C4_TurnAlternates ==
  /\ [](black_to_move <=> plays % 2 = 0)
  /\ [][/\ (op' = "play" /\ ret'.ok) => black_to_move' = ~black_to_move
        /\ (op' = "play" /\ ~ret'.ok) => black_to_move' = black_to_move
        /\ op' \in {"is_legal", "legal_moves", "counts", "as_list",
                    "get_black_to_move"}
             => black_to_move' = black_to_move /\ cells' = cells]_vars

C4Witness ==
  /\ PlayedOk /\ budget < MaxExtra
  /\ legal_moves(cells, black_to_move) = <<>>
  /\ \E i \in Cells : cells[i] = EMPTY

\* C5: a successful play adds exactly one stone to the board and empties no
\* cell that held a stone.
C5_PlayAddsOneStone ==
  [][(op' = "play" /\ ret'.ok)
       => /\ Stones(cells') = Stones(cells) + 1
          /\ \A i \in Cells : cells[i] # EMPTY => cells'[i] # EMPTY
          /\ cells[placed'] = EMPTY /\ cells'[placed'] # EMPTY]_vars

C5Witness == PlayedOk /\ budget < MaxExtra /\ ret.val >= 2 /\ Stones(cells) >= 6

\* C6: the number k a successful play returns is the number of cells, other
\* than idx, that changed from the opponent's colour to the mover's; counts()
\* goes from (mover m, opponent o) to (m + k + 1, o - k).  From the starting
\* position play(19) returns 1 and counts() is then (4, 1).
C6_ReturnIsFlipCount ==
  /\ [][(op' = "play" /\ ret'.ok)
          => LET my == my_stone(black_to_move)
                 k == ret'.val
                 before == counts(cells)
                 after == counts(cells')
                 m == IF black_to_move THEN before[1] ELSE before[2]
                 o == IF black_to_move THEN before[2] ELSE before[1]
                 m2 == IF black_to_move THEN after[1] ELSE after[2]
                 o2 == IF black_to_move THEN after[2] ELSE after[1]
             IN /\ k = Cardinality({i \in Cells \ {placed'} :
                                      cells[i] = 0 - my /\ cells'[i] = my})
                /\ m2 = m + k + 1
                /\ o2 = o - k]_vars
  /\ [][(cells = new.cells /\ black_to_move /\ op' = "play" /\ placed' = 19)
          => ret' = Ok(1) /\ counts(cells') = <<4, 1>>]_vars

C6Witness == PlayedOk /\ budget < MaxExtra /\ ret.val >= 3

\* C7: legal_moves() returns exactly the indices for which is_legal holds,
\* in strictly ascending order, and leaves the board alone; from the starting
\* position it returns [19, 26, 37, 44].
C7_LegalMovesSorted ==
  /\ [](\E lm \in {legal_moves(cells, black_to_move)} :
          /\ \A j \in 1 .. Len(lm) - 1 : lm[j] < lm[j + 1]
          /\ {lm[j] : j \in 1 .. Len(lm)}
               = {i \in Cells : is_legal(cells, black_to_move, i)}
          /\ (cells = new.cells /\ black_to_move) => lm = <<19, 26, 37, 44>>)
  /\ [][op' = "legal_moves"
          => /\ ret' = Ok(legal_moves(cells, black_to_move))
             /\ cells' = cells /\ black_to_move' = black_to_move]_vars

C7Witness ==
  /\ op = "legal_moves" /\ Len(ret.val) >= 2 /\ plays >= 1

\* C8: new() and reset() leave the canonical starting position: 27 and 36
\* WHITE, 28 and 35 BLACK, the other cells EMPTY, counts() = (2, 2), BLACK to
\* move; reset does not fail.
C8_ResetIsStart ==
  (op = "new" \/ op = "reset")
    => /\ cells[27] = WHITE /\ cells[36] = WHITE
       /\ cells[28] = BLACK /\ cells[35] = BLACK
       /\ \A i \in Cells \ {27, 28, 35, 36} : cells[i] = EMPTY
       /\ counts(cells) = <<2, 2>>
       /\ black_to_move
       /\ ret.ok

C8Witness == op = "reset" /\ budget = 0

\* C9: for idx in column 0 the scans of is_legal and play along -1, -9 and +7
\* read no cell: they find nothing and flip nothing.
C9_NoLeftScanFromColumn0 ==
  \A idx \in {i \in Cells : i % 8 = 0} : \A d \in {-1, -9, 7} :
    /\ \E r \in {legal_dir(cells, black_to_move, idx, d)} :
         r.read = <<>> /\ ~r.found
    /\ \E r \in {flip_dir([cells EXCEPT ![idx] = my_stone(black_to_move)],
                          my_stone(black_to_move), idx, d)} :
         r.read = <<>> /\ r.flipped = 0

C9Witness ==
  /\ PlayedOk /\ budget < MaxExtra /\ placed % 8 = 0
  /\ \E d \in {-1, -9, 7} :
       placed + d \in Cells /\ cells[placed + d] = my_stone(black_to_move)

\* C10: whenever is_legal(idx) is true, play(idx) succeeds and flips at least
\* one stone.
C10_LegalPlayFlips ==
  \A idx \in Cells :
    is_legal(cells, black_to_move, idx) =>
      \E r \in {play(cells, black_to_move, idx)} : r.ret.ok /\ r.ret.val >= 1

C10Witness == PlayedOk /\ budget < MaxExtra /\ placed % 8 = 0 /\ ret.val >= 7

====
